---- MODULE Spec2Model ----
(***************************************************************************)
(* PatternFlow: the StyleGAN training loop (recognition/45471861_StyleGAN/  *)
(* train.py), the random weighted average used for the gradient penalty,    *)
(* and the tensor shapes of UNet3D.forward (recognition/45979189unet3d/     *)
(* model.py).  Tensors carry a batch dimension (N, C, D, H, W), so that dim 1  *)
(* of torch.cat is the channel dimension; the model follows one sample.       *)
(*                                                                           *)
(* Three specifications share the variables:                                 *)
(*   Spec      one call of Trainer.train, from every configuration           *)
(*   SpecRWA   RandomWeightedAverage.call on one real and one fake sample    *)
(*   SpecUNet  UNet3D.forward on one input shape                             *)
(***************************************************************************)
EXTENDS Integers, Sequences, FiniteSets

VARIABLES
  \* ---- Trainer: configuration (Trainer.__init__) ----
  epochs,                \* self.epochs
  checkpoint,            \* self.checkpoint
  n_critics,             \* self.n_critics
  dataset,               \* number of batches one pass over self.dataset yields
  \* ---- Trainer.train: locals and position ----
  pc,                    \* position in train
  epoch,                 \* the value range(self.epochs) yields next / has yielded
  fade_in,               \* the float epoch / (epochs - 1), as [num, den]
  batch_idx,             \* batches the inner for loop has taken in this epoch
  iter,                  \* iter
  d_training_loss_buff,  \* losses appended since the last reset
  last_d_training_loss,  \* the losses d_training_loss_avg was computed over
  last_g_training_loss,  \* id of the last generator loss
  exception,             \* the exception that left train, if any
  \* ---- effects of train on the models and the file system ----
  d_params,              \* apply_gradients calls on the discriminator's variables
  g_params,              \* apply_gradients calls on the generator's variables
  d_calls,               \* calls of _train_d that returned
  g_calls,               \* calls of _train_g that returned
  fades_passed,          \* [epoch, fade] of every returned _train_d / _train_g call
  log,                   \* the parameter updates in order: "d" and "g"
  shown,                 \* calls of plt.show() in _show_images
  files,                 \* epochs e whose image_at_epoch_<e>.png was written, in order
  saved_g,               \* calls of generator.model.save
  saved_d,               \* calls of discriminator.model.save
  \* ---- RandomWeightedAverage.call ----
  real,                  \* the pixels of one real sample
  fake,                  \* the pixels of the fake sample of the same index
  alpha,                 \* the sample's weight, in units of 1 / AlphaDen
  interpolated,          \* the result's pixels, in units of 1 / AlphaDen
  rwa_pc,                \* "idle", "ready", "done"
  \* ---- UNet3D.forward ----
  input,                 \* the input tensor's shape: channels and (D, H, W)
  fwd,                   \* the shape of every tensor forward computes
  unet_pc                \* "idle", "ready", "done"

tvars == <<epochs, checkpoint, n_critics, dataset, pc, epoch, fade_in, batch_idx,
           iter, d_training_loss_buff, last_d_training_loss, last_g_training_loss,
           exception, d_params, g_params, d_calls, g_calls, fades_passed, log, shown,
           files, saved_g, saved_d>>
rvars == <<real, fake, alpha, interpolated, rwa_pc>>
uvars == <<input, fwd, unet_pc>>
vars == <<tvars, rvars, uvars>>

(***************************************************************************)
(* Bounds of the model.                                                     *)
(***************************************************************************)
MaxEpochs == 3
MaxCheckpoint == 2
MaxCritics == 3
MaxBatches == 6
\* RandomWeightedAverage: pixel values -MaxPixel..MaxPixel, NumPixels per sample,
\* weights on the grid k / AlphaDen with |k| <= MaxAlpha
MaxPixel == 1
NumPixels == 2
AlphaDen == 2
MaxAlpha == 4
\* UNet3D: spatial sizes 1..MaxSize and input channels 1..MaxChannels
MaxSize == 34
MaxChannels == 2

\* train.py:216  `if iter % 100 == 0`
PreviewEvery == 100

\* The lengths of the dataset: short ones, and one long enough for the preview.
DatasetSizes == (0 .. MaxBatches) \cup {PreviewEvery}

None == [type |-> "none", step |-> "none"]

(***************************************************************************)
(* Tensor shapes (model.py of 45979189unet3d): a tensor of one sample is    *)
(* its channel count c and its spatial sizes s = (D, H, W); a failed         *)
(* operation gives a tensor with ok = FALSE and the error.                   *)
(***************************************************************************)
Tensor(c, s) == [ok |-> TRUE, c |-> c, s |-> s, err |-> "none"]
Failed(e) == [ok |-> FALSE, c |-> 0, s |-> <<0, 0, 0>>, err |-> e]
NotRun == Failed("not run")

\* the tensors UNet3D.forward names, and those inside its Decoders
Stages == {"e1", "e2", "e3", "e4", "f", "up4", "cat4", "d4", "up3", "cat3", "d3",
           "up2", "cat2", "d2", "up1", "cat1", "d1", "d0", "out"}

(***************************************************************************)
(* Trainer.__init__ (train.py:39-95): the attributes the constructor sets.  *)
(* No other method of Trainer assigns an attribute except load_data, which  *)
(* sets self.dataset; the class defines no __getattr__.                     *)
(***************************************************************************)
TrainerAttrs ==
  {"image_res", "channels", "rgb", "latent_dim", "batch", "epochs", "checkpoint",
   "lr", "beta_1", "n_critics", "gp_weight", "num_of_validation_images",
   "output_dir", "generator", "discriminator", "dataset", "validation_latent",
   "neptune", "run"}

\* Reading self.<a>: Python raises AttributeError when the object has no attribute a.
HasAttr(a) == a \in TrainerAttrs

\* What a call into the framework (a forward pass, a gradient, an optimizer
\* step) can do: return, or raise (shape mismatch, device unavailable, ...).
Outcomes == {"returns", "raises"}

\* A slip: the exception is recorded and the loop goes on with the next batch
Raise_swallowed(type, step) ==
  /\ pc' = "batch_head"
  /\ exception' = [type |-> type, step |-> step]

\* An exception nobody catches leaves train: train.py has no try statement.
Raise(type, step) ==
  /\ pc' = "raised"
  /\ exception' = [type |-> type, step |-> step]

\* A slip in the divisor: float(self.epochs) for float(self.epochs - 1)
FadeDen_epochs(n) == n

\* train.py:187  the divisor of fade_in
FadeDen(n) == n - 1

\* A slip in the turn test: iter for iter + 1
GTurn_iter(it, n) == it % n = 0

\* train.py:198  `if (iter + 1) % self.n_critics == 0` (n # 0)
GTurn(it, n) == (it + 1) % n = 0

\* train.py:144-145  _train_d: the optimizer step on the discriminator's variables
ApplyD ==
  /\ d_params' = d_params + 1
  /\ g_params' = g_params
  /\ log' = Append(log, "d")

\* A slip in _train_g: the gradients applied to the discriminator's variables
ApplyG_onD ==
  /\ d_params' = d_params + 1
  /\ g_params' = g_params
  /\ log' = Append(log, "g")

\* train.py:123-124  _train_g: the optimizer step on the generator's variables
ApplyG ==
  /\ g_params' = g_params + 1
  /\ d_params' = d_params
  /\ log' = Append(log, "g")

\* train.py:202  sum(d_training_loss_buff) / len(d_training_loss_buff):
\* the losses summed and the divisor
Avg(buff) == [of |-> buff, len |-> Len(buff)]

\* A slip: the buffer is not emptied after the average
ResetBuff_kept == d_training_loss_buff

\* train.py:209  d_training_loss_buff = []
ResetBuff == << >>

\* train.py:149-170  _show_images(epoch, save), then control goes to `next`.
\* Line 154 reads self.image_reso before anything is drawn, saved or shown.
ShowImages(e, save, next) ==
  IF ~HasAttr("image_reso")
    THEN /\ Raise("AttributeError", "_show_images")
         /\ UNCHANGED <<shown, files>>
    ELSE /\ files' = IF save THEN Append(files, e) ELSE files
         /\ shown' = shown + 1
         /\ pc' = next
         /\ UNCHANGED exception

(***************************************************************************)
(* Init: a Trainer has been constructed and train is about to run           *)
(* (train.py:172-181).                                                      *)
(***************************************************************************)
IdleRWA ==
  /\ real = << >> /\ fake = << >> /\ alpha = 0 /\ interpolated = << >>
  /\ rwa_pc = "idle"

IdleUNet ==
  /\ input = NotRun /\ fwd = [st \in Stages |-> NotRun] /\ unet_pc = "idle"

InitTrainer ==
  /\ epochs \in 0 .. MaxEpochs
  /\ checkpoint \in 0 .. MaxCheckpoint
  /\ n_critics \in 0 .. MaxCritics
  /\ dataset \in DatasetSizes
  /\ pc = "epoch_head"
  /\ epoch = 0
  /\ fade_in = [num |-> 0, den |-> 1]
  /\ batch_idx = 0
  /\ iter = 0
  /\ d_training_loss_buff = << >>
  /\ last_d_training_loss = Avg(<< >>)
  /\ last_g_training_loss = 0
  /\ exception = None
  /\ d_params = 0 /\ g_params = 0 /\ d_calls = 0 /\ g_calls = 0
  /\ fades_passed = {}
  /\ log = << >>
  /\ shown = 0
  /\ files = << >>
  /\ saved_g = 0 /\ saved_d = 0

Init == InitTrainer /\ IdleRWA /\ IdleUNet

(***************************************************************************)
(* Trainer.train, one action per statement group.                           *)
(***************************************************************************)
\* train.py:184-187  `for epoch in range(self.epochs)` and the fade-in ratio
EpochHead ==
  /\ UNCHANGED <<rvars, uvars>>
  /\ pc = "epoch_head"
  /\ IF epoch < epochs
       THEN IF FadeDen(epochs) = 0
              THEN /\ Raise("ZeroDivisionError", "fade_in")
                   /\ UNCHANGED <<fade_in, batch_idx>>
              ELSE /\ fade_in' = [num |-> epoch, den |-> FadeDen(epochs)]
                   /\ batch_idx' = 0
                   /\ pc' = "batch_head"
                   /\ UNCHANGED exception
       ELSE /\ pc' = "save"
            /\ UNCHANGED <<fade_in, batch_idx, exception>>
  /\ UNCHANGED <<epochs, checkpoint, n_critics, dataset, epoch, iter,
                 d_training_loss_buff, last_d_training_loss, last_g_training_loss,
                 d_params, g_params, d_calls, g_calls, fades_passed, log, shown,
                 files, saved_g, saved_d>>

\* train.py:190  `for image_batch in self.dataset`
BatchHead ==
  /\ UNCHANGED <<rvars, uvars>>
  /\ pc = "batch_head"
  /\ IF batch_idx < dataset
       THEN /\ batch_idx' = batch_idx + 1
            /\ pc' = "train_d"
       ELSE /\ pc' = "epoch_end"
            /\ UNCHANGED batch_idx
  /\ UNCHANGED <<epochs, checkpoint, n_critics, dataset, epoch, fade_in, iter,
                 d_training_loss_buff, last_d_training_loss, last_g_training_loss,
                 exception, d_params, g_params, d_calls, g_calls, fades_passed, log,
                 shown, files, saved_g, saved_d>>

\* train.py:192-195  d_loss = self._train_d(image_batch, fade_in); buff.append(d_loss)
TrainD ==
  /\ UNCHANGED <<rvars, uvars>>
  /\ pc = "train_d"
  /\ \E outcome \in Outcomes :
       IF outcome = "returns"
         THEN /\ ApplyD
              /\ d_calls' = d_calls + 1
              /\ fades_passed' = fades_passed \cup {[epoch |-> epoch, fade |-> fade_in]}
              /\ d_training_loss_buff' = Append(d_training_loss_buff, d_calls + 1)
              /\ pc' = "train_g"
              /\ UNCHANGED exception
         ELSE /\ Raise("FrameworkError", "_train_d")
              /\ UNCHANGED <<d_params, g_params, log, d_calls, fades_passed,
                             d_training_loss_buff>>
  /\ UNCHANGED <<epochs, checkpoint, n_critics, dataset, epoch, fade_in, batch_idx,
                 iter, last_d_training_loss, last_g_training_loss, g_calls, shown,
                 files, saved_g, saved_d>>

\* train.py:198-211  the generator step, every n_critics-th iteration
TrainG ==
  /\ UNCHANGED <<rvars, uvars>>
  /\ pc = "train_g"
  /\ \E outcome \in Outcomes :
       IF n_critics = 0
         THEN /\ Raise("ZeroDivisionError", "n_critics")
              /\ UNCHANGED <<d_params, g_params, log, g_calls, fades_passed,
                             d_training_loss_buff, last_d_training_loss,
                             last_g_training_loss>>
       ELSE IF ~GTurn(iter, n_critics)
         THEN /\ pc' = "iter_inc"
              /\ UNCHANGED <<d_params, g_params, log, g_calls, fades_passed,
                             d_training_loss_buff, last_d_training_loss,
                             last_g_training_loss, exception>>
       ELSE IF outcome = "raises"
         THEN /\ Raise("FrameworkError", "_train_g")
              /\ UNCHANGED <<d_params, g_params, log, g_calls, fades_passed,
                             d_training_loss_buff, last_d_training_loss,
                             last_g_training_loss>>
       ELSE IF Len(d_training_loss_buff) = 0
         THEN /\ ApplyG
              /\ g_calls' = g_calls + 1
              /\ fades_passed' = fades_passed \cup {[epoch |-> epoch, fade |-> fade_in]}
              /\ Raise("ZeroDivisionError", "d_training_loss_avg")
              /\ UNCHANGED <<d_training_loss_buff, last_d_training_loss,
                             last_g_training_loss>>
         ELSE /\ ApplyG
              /\ g_calls' = g_calls + 1
              /\ fades_passed' = fades_passed \cup {[epoch |-> epoch, fade |-> fade_in]}
              /\ last_d_training_loss' = Avg(d_training_loss_buff)
              /\ d_training_loss_buff' = ResetBuff
              /\ last_g_training_loss' = g_calls + 1
              /\ pc' = "iter_inc"
              /\ UNCHANGED exception
  /\ UNCHANGED <<epochs, checkpoint, n_critics, dataset, epoch, fade_in, batch_idx,
                 iter, d_calls, shown, files, saved_g, saved_d>>

\* train.py:213-219  iter += 1 and the preview every 100 iterations
IterInc ==
  /\ UNCHANGED <<rvars, uvars>>
  /\ pc = "iter_inc"
  /\ iter' = iter + 1
  /\ IF iter' % PreviewEvery = 0
       THEN ShowImages(0, FALSE, "batch_head")
       ELSE /\ pc' = "batch_head"
            /\ UNCHANGED <<exception, shown, files>>
  /\ UNCHANGED <<epochs, checkpoint, n_critics, dataset, epoch, fade_in, batch_idx,
                 d_training_loss_buff, last_d_training_loss, last_g_training_loss,
                 d_params, g_params, d_calls, g_calls, fades_passed, log, saved_g,
                 saved_d>>

\* train.py:221-225  the end-of-epoch checkpoint, then the next epoch
EpochEnd ==
  /\ UNCHANGED <<rvars, uvars>>
  /\ pc = "epoch_end"
  /\ IF checkpoint = 0
       THEN /\ Raise("ZeroDivisionError", "checkpoint")
            /\ UNCHANGED <<shown, files, epoch>>
       ELSE IF epoch % checkpoint = 0
         THEN /\ ShowImages(epoch, TRUE, "epoch_head")
              /\ epoch' = IF pc' = "raised" THEN epoch ELSE epoch + 1
         ELSE /\ pc' = "epoch_head"
              /\ epoch' = epoch + 1
              /\ UNCHANGED <<exception, shown, files>>
  /\ UNCHANGED <<epochs, checkpoint, n_critics, dataset, fade_in, batch_idx, iter,
                 d_training_loss_buff, last_d_training_loss, last_g_training_loss,
                 d_params, g_params, d_calls, g_calls, fades_passed, log, saved_g,
                 saved_d>>

\* train.py:227-232  save D and G
Save ==
  /\ UNCHANGED <<rvars, uvars>>
  /\ pc = "save"
  /\ saved_g' = saved_g + 1
  /\ saved_d' = saved_d + 1
  /\ pc' = "done"
  /\ UNCHANGED <<epochs, checkpoint, n_critics, dataset, epoch, fade_in, batch_idx,
                 iter, d_training_loss_buff, last_d_training_loss,
                 last_g_training_loss, exception, d_params, g_params, d_calls,
                 g_calls, fades_passed, log, shown, files>>

Next == EpochHead \/ BatchHead \/ TrainD \/ TrainG \/ IterInc \/ EpochEnd \/ Save

Spec == Init /\ [][Next]_vars

(***************************************************************************)
(* Properties of Trainer.train (specification Spec).                        *)
(***************************************************************************)
\* train has ended: it returned, or an exception left it
Halted == pc \in {"done", "raised"}

\* the configurations the claims speak of, over a dataset that is not empty
WellConfigured == epochs >= 2 /\ checkpoint >= 1 /\ n_critics >= 1 /\ dataset >= 1

\* no framework call raised inside _train_d or _train_g
NoFrameworkError == exception.type # "FrameworkError"

\* C1: with n_critics >= 1 every batch performs exactly one discriminator
\* update, and a generator update follows it exactly when the cumulative batch
\* count iter + 1 is a multiple of n_critics: after k batches the generator has
\* been updated k \div n_critics times, and the updates in order are n_critics
\* discriminator updates, one generator update, and so on.
C1_Alternation ==
  n_critics >= 1 =>
    /\ pc \in {"batch_head", "epoch_end"} =>
         d_params = iter /\ g_params = iter \div n_critics
    /\ pc = "train_g" =>
         d_params = iter + 1 /\ g_params = iter \div n_critics
    /\ pc = "iter_inc" =>
         d_params = iter + 1 /\ g_params = (iter + 1) \div n_critics
    /\ \A i \in 1 .. Len(log) :
         log[i] = IF i % (n_critics + 1) = 0 THEN "g" ELSE "d"

C1_Witness ==
  /\ n_critics = 3 /\ pc = "batch_head" /\ iter = 6
  /\ g_params = 2 /\ d_params = 6

\* C3 (as claimed): for epochs >= 2, checkpoint >= 1, n_critics >= 1, a call of
\* train in which no framework call raises ends with the generator and the
\* discriminator saved, each exactly once, after all epochs.
C3_SavesModels ==
  (Halted /\ WellConfigured /\ NoFrameworkError) =>
    (pc = "done" /\ saved_g = 1 /\ saved_d = 1 /\ epoch = epochs)

\* C4: once an exception has left a step of the loop, train does nothing more:
\* no discriminator or generator update, no retry of the step, no image, and
\* the models are never saved.
C4_FailurePropagates ==
  [][exception # None =>
       /\ exception' = exception
       /\ UNCHANGED <<d_params, g_params, d_calls, g_calls, log, iter, shown, files>>
       /\ saved_g' = 0 /\ saved_d' = 0]_vars

C4_Witness ==
  /\ pc = "raised" /\ exception = [type |-> "FrameworkError", step |-> "_train_g"]
  /\ d_params = 2 /\ g_params = 0 /\ dataset > 2 /\ epochs >= 2

\* the epochs whose image the claim says is saved, in order
ExpectedFiles ==
  LET IsCheckpoint(e) == e % checkpoint = 0
  IN  SelectSeq([i \in 1 .. epochs |-> i - 1], IsCheckpoint)

\* C5 (as claimed): image_at_epoch_<e>.png is written once for every epoch e in
\* 0..epochs-1 with e % checkpoint = 0, so a call of train in which no framework
\* call raises ends with exactly these files written.
C5_ImagesSaved ==
  (Halted /\ WellConfigured /\ NoFrameworkError) => files = ExpectedFiles

\* C6 (as claimed): the batches of epoch e are trained with fade_in =
\* e / (epochs - 1), from 0 in the first epoch up to 1 in the last, so a call of
\* train over a non-empty dataset in which no framework call raises has passed
\* exactly these ratios.
C6_FadeInIncreases ==
  (Halted /\ WellConfigured /\ NoFrameworkError) =>
    fades_passed = {[epoch |-> e, fade |-> [num |-> e, den |-> epochs - 1]] :
                      e \in 0 .. epochs - 1}

\* C7: whenever d_training_loss_avg is computed the buffer holds exactly the
\* n_critics losses of the discriminator updates since the previous generator
\* update, so the divisor is n_critics and never 0; the buffer is emptied right
\* after, and at the end of a batch its length is (batch count) mod n_critics.
C7_LossBuffer ==
  n_critics >= 1 =>
    /\ exception.step # "d_training_loss_avg"
    /\ g_calls >= 1 =>
         /\ last_d_training_loss.len = n_critics
         /\ last_d_training_loss.of =
              [i \in 1 .. n_critics |-> (g_calls - 1) * n_critics + i]
    /\ pc = "iter_inc" =>
         Len(d_training_loss_buff) = (iter + 1) % n_critics
    /\ pc \in {"batch_head", "epoch_end"} =>
         /\ Len(d_training_loss_buff) = iter % n_critics
         /\ Len(d_training_loss_buff) < n_critics

C7_Witness ==
  /\ n_critics = 3 /\ g_calls = 2 /\ pc = "iter_inc"
  /\ last_d_training_loss = Avg(<<4, 5, 6>>) /\ d_training_loss_buff = << >>

\* C8: a returned _train_d call is one update of the discriminator's parameters
\* and none of the generator's, a returned _train_g call is one update of the
\* generator's and none of the discriminator's, and nothing else updates
\* either; so the update counts equal the call counts.
C8_OneModelPerStep ==
  /\ [](d_params = d_calls /\ g_params = g_calls)
  /\ [][/\ d_calls' # d_calls =>
             (d_calls' = d_calls + 1 /\ d_params' = d_params + 1 /\ g_params' = g_params)
        /\ g_calls' # g_calls =>
             (g_calls' = g_calls + 1 /\ g_params' = g_params + 1 /\ d_params' = d_params)
        /\ (d_calls' = d_calls /\ g_calls' = g_calls) =>
             (d_params' = d_params /\ g_params' = g_params)]_vars

C8_Witness ==
  /\ d_calls = 4 /\ g_calls = 2 /\ d_params = 4 /\ g_params = 2 /\ pc = "iter_inc"

\* C10: with epochs = 1 the first fade_in is a division by zero: train ends
\* with ZeroDivisionError before any update, any image and any save.
C10_OneEpochFails ==
  epochs = 1 =>
    /\ pc \in {"epoch_head", "raised"}
    /\ pc = "raised" => exception = [type |-> "ZeroDivisionError", step |-> "fade_in"]
    /\ d_params = 0 /\ g_params = 0 /\ d_calls = 0 /\ g_calls = 0
    /\ iter = 0 /\ shown = 0 /\ files = << >> /\ saved_g = 0 /\ saved_d = 0

C10_Witness ==
  /\ epochs = 1 /\ dataset >= 1 /\ n_critics >= 1 /\ checkpoint >= 1
  /\ pc = "raised" /\ exception.type = "ZeroDivisionError"

(***************************************************************************)
(* RandomWeightedAverage.call (train.py:29-32) on one sample.               *)
(***************************************************************************)
\* no Trainer.train is running
IdleTrainer ==
  /\ epochs = 0 /\ checkpoint = 0 /\ n_critics = 0 /\ dataset = 0
  /\ pc = "idle" /\ epoch = 0 /\ fade_in = [num |-> 0, den |-> 1]
  /\ batch_idx = 0 /\ iter = 0
  /\ d_training_loss_buff = << >> /\ last_d_training_loss = Avg(<< >>)
  /\ last_g_training_loss = 0 /\ exception = None
  /\ d_params = 0 /\ g_params = 0 /\ d_calls = 0 /\ g_calls = 0
  /\ fades_passed = {} /\ log = << >> /\ shown = 0 /\ files = << >>
  /\ saved_g = 0 /\ saved_d = 0

Pixels == -MaxPixel .. MaxPixel
Samples == [1 .. NumPixels -> Pixels]

\* train.py:30  tf.random.normal((batch_size, 1, 1, 1), 0, 1): mean 0, standard
\* deviation 1.  A normal variate can be any real number; here the values
\* k / AlphaDen with |k| <= MaxAlpha, k being the numerator.
RandomNormal == -MaxAlpha .. MaxAlpha

\* train.py:31-32  diff = fake - real; real + alpha * diff, one alpha for all
\* pixels of the sample (shape (batch, 1, 1, 1)); the result in units of 1 / AlphaDen
WeightedAverage(r, f, a) ==
  [i \in 1 .. NumPixels |-> r[i] * AlphaDen + a * (f[i] - r[i])]

InitRWA ==
  /\ real \in Samples
  /\ fake \in Samples
  /\ alpha = 0
  /\ interpolated = << >>
  /\ rwa_pc = "ready"
  /\ IdleTrainer /\ IdleUNet

\* train.py:29-32  RandomWeightedAverage.call(real, fake)
Call ==
  /\ rwa_pc = "ready"
  /\ \E a \in RandomNormal :
       /\ alpha' = a
       /\ interpolated' = WeightedAverage(real, fake, a)
  /\ rwa_pc' = "done"
  /\ UNCHANGED <<real, fake, tvars, uvars>>

NextRWA == Call

SpecRWA == InitRWA /\ [][NextRWA]_vars

Min(a, b) == IF a <= b THEN a ELSE b
Max(a, b) == IF a <= b THEN b ELSE a

\* C2 (as claimed): every element of real + alpha * (fake - real) lies between
\* the corresponding elements of real and fake, and alpha is in [0, 1].
C2_Interpolates ==
  rwa_pc = "done" =>
    /\ 0 <= alpha /\ alpha <= AlphaDen
    /\ \A i \in 1 .. NumPixels :
         /\ Min(real[i], fake[i]) * AlphaDen <= interpolated[i]
         /\ interpolated[i] <= Max(real[i], fake[i]) * AlphaDen

(***************************************************************************)
(* UNet3D (45979189unet3d/model.py): the shape each layer gives.            *)
(***************************************************************************)
\* nn.Conv3d(cin, cout, kernel_size=k, stride=st, padding=p): the input must
\* have cin channels; each size n becomes (n + 2p - k) \div st + 1
Conv3d(x, cin, cout, k, st, p) ==
  IF ~x.ok THEN x
  ELSE IF x.c # cin THEN Failed("conv: channels")
  ELSE LET s == [i \in 1 .. 3 |-> (x.s[i] + 2 * p - k) \div st + 1]
       IN  IF \E i \in 1 .. 3 : x.s[i] + 2 * p < k
             THEN Failed("conv: kernel larger than input")
             ELSE Tensor(cout, s)

\* nn.MaxPool3d(kernel_size=k): stride k, no padding; each size n becomes
\* (n - k) \div k + 1, and a size of 0 is refused ("Output size is too small")
MaxPool3d(x, k) ==
  IF ~x.ok THEN x
  ELSE IF \E i \in 1 .. 3 : x.s[i] < k THEN Failed("pool: output size is too small")
  ELSE Tensor(x.c, [i \in 1 .. 3 |-> (x.s[i] - k) \div k + 1])

\* nn.ConvTranspose3d(cin, cout, kernel_size=k, stride=st): each size n becomes
\* (n - 1) * st + k
ConvTranspose3d(x, cin, cout, k, st) ==
  IF ~x.ok THEN x
  ELSE IF x.c # cin THEN Failed("conv_transpose: channels")
  ELSE Tensor(cout, [i \in 1 .. 3 |-> (x.s[i] - 1) * st + k])

\* nn.ReLU(): elementwise, the shape is kept
ReLU(x) == x

\* torch.cat((x1, x2), dim=1): the sizes of all other dimensions must agree
Cat(x1, x2) ==
  IF ~x1.ok THEN x1
  ELSE IF ~x2.ok THEN x2
  ELSE IF x1.s # x2.s THEN Failed("cat: sizes differ")
  ELSE Tensor(x1.c + x2.c, x1.s)

\* model.py:19,25  Decoder.up
DecoderUp(x1, in_channels, out_channels) ==
  ConvTranspose3d(x1, in_channels, out_channels, 2, 2)

\* model.py:20-23,27  Decoder.conv_relu
DecoderConvRelu(x, middle_channels, out_channels) ==
  ReLU(Conv3d(x, middle_channels, out_channels, 3, 1, 1))

\* model.py:16-28  Decoder(in_channels, middle_channels, out_channels).forward(x1, x2):
\* the upsampled tensor, the concatenation and the result
Decoder(x1, x2, in_channels, middle_channels, out_channels) ==
  LET up  == DecoderUp(x1, in_channels, out_channels)
      cat == Cat(up, x2)
  IN  [up |-> up, cat |-> cat,
       out |-> DecoderConvRelu(cat, middle_channels, out_channels)]

\* model.py:36-64  one encoder stage: Conv3d, ReLU, Conv3d, MaxPool3d(2)
EncoderLayer(x, cin, cout) ==
  MaxPool3d(Conv3d(ReLU(Conv3d(x, cin, cout, 3, 1, 1)), cout, cout, 3, 1, 1), 2)

layer1(x) == EncoderLayer(x, 1, 16)
layer2(x) == EncoderLayer(x, 16, 32)
layer3(x) == EncoderLayer(x, 32, 64)
layer4(x) == EncoderLayer(x, 64, 128)
layer5(x) == EncoderLayer(x, 128, 256)

decode4(x1, x2) == Decoder(x1, x2, 256, 128 + 128, 128)
decode3(x1, x2) == Decoder(x1, x2, 128, 64 + 64, 64)
decode2(x1, x2) == Decoder(x1, x2, 64, 32 + 32, 32)

\* A slip in the Decoder's arguments: 32 + 32 for 32 + 16
decode1_mid64(x1, x2) == Decoder(x1, x2, 32, 32 + 32, 32)

decode1(x1, x2) == Decoder(x1, x2, 32, 32 + 16, 32)

\* model.py:70-76
decode0(x) ==
  ReLU(Conv3d(ReLU(Conv3d(ConvTranspose3d(x, 32, 32, 2, 2), 32, 16, 3, 1, 1)),
              16, 16, 3, 1, 1))

\* model.py:77
conv_last(x) == Conv3d(x, 16, 6, 1, 1, 0)

\* model.py:80-95  UNet3D.forward: every tensor it computes
forward(x) ==
  LET e1 == layer1(x)
      e2 == layer2(e1)
      e3 == layer3(e2)
      e4 == layer4(e3)
      f  == layer5(e4)
      d4 == decode4(f, e4)
      d3 == decode3(d4.out, e3)
      d2 == decode2(d3.out, e2)
      d1 == decode1(d2.out, e1)
      d0 == decode0(d1.out)
  IN  [e1 |-> e1, e2 |-> e2, e3 |-> e3, e4 |-> e4, f |-> f,
       up4 |-> d4.up, cat4 |-> d4.cat, d4 |-> d4.out,
       up3 |-> d3.up, cat3 |-> d3.cat, d3 |-> d3.out,
       up2 |-> d2.up, cat2 |-> d2.cat, d2 |-> d2.out,
       up1 |-> d1.up, cat1 |-> d1.cat, d1 |-> d1.out,
       d0 |-> d0, out |-> conv_last(d0)]

\* model.py:81,92  the sizes the comments of forward give for the input
DocD == 128
DocHW == 256

SpatialSizes == (1 .. MaxSize) \cup {DocD, DocHW}

InitUNet ==
  /\ input \in {Tensor(c, <<d, h, w>>) :
                  c \in 1 .. MaxChannels, d \in SpatialSizes,
                  h \in SpatialSizes, w \in SpatialSizes}
  /\ fwd = [st \in Stages |-> NotRun]
  /\ unet_pc = "ready"
  /\ IdleTrainer /\ IdleRWA

\* model.py:80-95  out = model(input)
Forward ==
  /\ unet_pc = "ready"
  /\ fwd' = forward(input)
  /\ unet_pc' = "done"
  /\ UNCHANGED <<input, tvars, rvars>>

NextUNet == Forward

SpecUNet == InitUNet /\ [][NextUNet]_vars

(***************************************************************************)
(* Properties of UNet3D.forward (specification SpecUNet).                   *)
(***************************************************************************)
Mult32(s) == \A i \in 1 .. 3 : s[i] % 32 = 0
Shrunk(s, k) == [i \in 1 .. 3 |-> s[i] \div k]

\* the shapes the comments of forward state, for an input of sizes s
DocumentedShapes(s) ==
  /\ fwd.e1 = Tensor(16, Shrunk(s, 2))
  /\ fwd.e2 = Tensor(32, Shrunk(s, 4))
  /\ fwd.e3 = Tensor(64, Shrunk(s, 8))
  /\ fwd.e4 = Tensor(128, Shrunk(s, 16))
  /\ fwd.f = Tensor(256, Shrunk(s, 32))
  /\ fwd.up4.ok /\ fwd.up4.s = fwd.e4.s /\ fwd.cat4.ok /\ fwd.cat4.c = 256
  /\ fwd.up3.ok /\ fwd.up3.s = fwd.e3.s /\ fwd.cat3.ok /\ fwd.cat3.c = 128
  /\ fwd.up2.ok /\ fwd.up2.s = fwd.e2.s /\ fwd.cat2.ok /\ fwd.cat2.c = 64
  /\ fwd.up1.ok /\ fwd.up1.s = fwd.e1.s /\ fwd.cat1.ok /\ fwd.cat1.c = 48
  /\ fwd.d4 = Tensor(128, Shrunk(s, 16))
  /\ fwd.d3 = Tensor(64, Shrunk(s, 8))
  /\ fwd.d2 = Tensor(32, Shrunk(s, 4))
  /\ fwd.d1 = Tensor(32, Shrunk(s, 2))
  /\ fwd.d0 = Tensor(16, s)
  /\ fwd.out = Tensor(6, s)

\* C9 (as claimed, its last sentence): for a 1-channel input with a spatial
\* size that is not a multiple of 32 the forward pass fails instead of
\* returning an output.
C9_NonMultipleFails ==
  (unet_pc = "done" /\ input.c = 1 /\ ~Mult32(input.s)) => ~fwd.out.ok

\* C9 (amended): for a 1-channel input whose spatial sizes are positive
\* multiples of 32, forward gives the shapes of its comments and an output of 6
\* channels and the input's sizes.  forward returns an output exactly when
\* every spatial size n is at least 32 and n mod 32 is 0 or 1; the output's size
\* is then 32 * (n \div 32), one less than n when n mod 32 = 1.  Otherwise it
\* fails, at a pooling whose output would be empty or at a skip concatenation
\* of tensors of different sizes.
C9_Shapes ==
  (unet_pc = "done" /\ input.c = 1) =>
    /\ Mult32(input.s) => DocumentedShapes(input.s)
    /\ fwd.out.ok <=> \A i \in 1 .. 3 : input.s[i] >= 32 /\ input.s[i] % 32 \in {0, 1}
    /\ fwd.out.ok => DocumentedShapes([i \in 1 .. 3 |-> 32 * (input.s[i] \div 32)])
    /\ ~fwd.out.ok =>
         /\ fwd.out.err \in {"pool: output size is too small", "cat: sizes differ"}
         /\ fwd.out.err = "cat: sizes differ" =>
              \E k \in {"cat4", "cat3", "cat2", "cat1"} :
                 fwd[k].err = "cat: sizes differ"

C9_Witness ==
  /\ unet_pc = "done"
  /\ input = Tensor(1, <<DocD, DocHW, DocHW>>)
  /\ fwd.f = Tensor(256, <<4, 8, 8>>)
  /\ fwd.out = Tensor(6, <<DocD, DocHW, DocHW>>)

====
